---- MODULE Spec2Model ----
(***************************************************************************)
(* A model of the ICDC data loader's command line driver (loader.py) and   *)
(* of the helpers it uses (utils.py).                                      *)
(*                                                                         *)
(* Python strings are modelled as sequences of one-character strings, so   *)
(* that strip(), lower() and the regular expression of is_parent_pointer   *)
(* are computed character by character.                                    *)
(***************************************************************************)
EXTENDS Integers, Sequences, FiniteSets, TLC

VARIABLES
    \* ---- is_parent_pointer (utils.py) ----
    field_name,     \* the header cell handed to is_parent_pointer
    pp_result,      \* "unset", or what it returned: "match" | "no_match"
    \* ---- get_uuid_for_node (utils.py) ----
    domain,         \* per process: ICDC_DOMAIN as read from the config file at import
    calls,          \* the calls of get_uuid_for_node made so far, with their results
    \* ---- main (loader.py) ----
    pc,             \* position of main
    args,           \* the parsed command line
    env,            \* what main has observed of its environment so far
    cmds_run,       \* subprocess.call invocations of backup_neo4j, with their outcome
    restore_cmd,    \* main's restore_cmd: "" | "text" | "False"
    driver,         \* "none" | "open" | "closed"
    answer,         \* what the user typed at the wipe prompt
    confirmed,      \* "unasked", or what confirm_wipe_db did: "yes" | "no" | "eof"
    exit,           \* how main ended: "running" | "exit0" | "exit1" | "returned" | "raised"
    trace,          \* the externally visible events of the run, in order
    \* ---- DataLoader.load (data_loader.py, not part of src/) ----
    file_list,      \* the files handed to load, each a sequence of records
    store,          \* the graph store: committed nodes and relationships
    store0,         \* the store when the process started
    tx,             \* the open transaction's view of the store
    lpc,            \* position of load
    file_idx,       \* number of files committed by the current load
    rec_idx,        \* number of records of the current file applied to tx
    counts,         \* nodes / relationships created by the current load
    base,           \* the store when the current load began its first file
    run_no,         \* which invocation of load this is (1 or 2)
    after_run1      \* the store and outcome at the end of the first invocation

ppVars   == <<field_name, pp_result>>
uuidVars == <<domain, calls>>
mainVars == <<pc, args, env, cmds_run, restore_cmd, driver, answer, confirmed, exit, trace>>
loadVars == <<file_list, store, store0, tx, lpc, file_idx, rec_idx, counts, base, run_no, after_run1>>
vars     == <<ppVars, uuidVars, mainVars, loadVars>>

----------------------------------------------------------------------------
(* Bounds of the model *)

MaxNameLen == 4     \* longest field name handed to is_parent_pointer
NProcs     == 2     \* processes that compute node ids
MaxCalls   == 2     \* calls of get_uuid_for_node recorded
MaxSchemas == 2     \* -s/--schema arguments given
MaxFiles   == 2     \* *.txt files found in the data directory

RECURSIVE SeqsUpTo(_, _)
SeqsUpTo(S, n) ==
    IF n = 0 THEN {<<>>}
    ELSE LET shorter == SeqsUpTo(S, n - 1)
         IN  shorter \cup {Append(q, c) : q \in {r \in shorter : Len(r) = n - 1}, c \in S}

----------------------------------------------------------------------------
(* Characters and Python str methods *)

WordChars  == {"a", "Z", "_", "7"}          \* \w: letters, digits, underscore
OtherChars == {".", "-", " ", "\n"}
NameChars  == WordChars \cup OtherChars

Whitespace == {" ", "\t", "\n"}

\* str.strip(): drop leading and trailing whitespace
RECURSIVE lstrip(_)
lstrip(s) == IF s # <<>> /\ Head(s) \in Whitespace THEN lstrip(Tail(s)) ELSE s

RECURSIVE rstrip(_)
rstrip(s) ==
    IF s # <<>> /\ s[Len(s)] \in Whitespace THEN rstrip(SubSeq(s, 1, Len(s) - 1)) ELSE s

strip(s) == rstrip(lstrip(s))

\* str.lower(), on the characters the answers are made of
lower_char(c) ==
    CASE c = "Y" -> "y"
      [] c = "E" -> "e"
      [] c = "S" -> "s"
      [] c = "N" -> "n"
      [] c = "O" -> "o"
      [] OTHER   -> c

lower(s) == [i \in 1..Len(s) |-> lower_char(s[i])]

----------------------------------------------------------------------------
(* utils.is_parent_pointer: re.fullmatch(r'\w+\.\w+', field_name)           *)
(* The pattern as an automaton: 0 start, 1 inside the first \w+, 2 after    *)
(* the dot, 3 inside the second \w+ (accepting).                           *)

pp_step(q, c) ==
    CASE q = 0 /\ c \in WordChars -> 1
      [] q = 1 /\ c \in WordChars -> 1
      [] q = 1 /\ c = "."         -> 2
      [] q = 2 /\ c \in WordChars -> 3
      [] q = 3 /\ c \in WordChars -> 3
      [] OTHER                    -> -1

RECURSIVE pp_run(_, _)
pp_run(q, s) == IF s = <<>> \/ q = -1 THEN q ELSE pp_run(pp_step(q, Head(s)), Tail(s))

\* mutant: re.match instead of re.fullmatch (a matching prefix is enough)
is_parent_pointer_prefix(s) ==
    \E n \in 0..Len(s) : pp_run(0, SubSeq(s, 1, n)) = 3

is_parent_pointer(s) == pp_run(0, s) = 3

PPInit ==
    /\ field_name \in SeqsUpTo(NameChars, MaxNameLen)
    /\ pp_result = "unset"

CheckField ==
    /\ pp_result = "unset"
    /\ pp_result' = IF is_parent_pointer(field_name) THEN "match" ELSE "no_match"
    /\ UNCHANGED field_name

----------------------------------------------------------------------------
(* utils.get_uuid_for_node                                                 *)
(* uuid.uuid5(namespace, name) is a hash of the namespace and the name; it *)
(* is modelled as the term built from its two arguments, str() as a tag.   *)

Domains   == {"domain_a", "domain_b"}       \* values of [main] domain in config.ini
NodeTypes == {"case", "sample"}
Sigs      == {"s1", "s2"}
Procs     == 1..NProcs

NAMESPACE_URL == [ns |-> "NAMESPACE_URL"]

uuid5(namespace, name) == [ns |-> namespace, name |-> name]

uuid_str(u) == [str |-> u]

\* mutant: the node id is derived from the base id, skipping the per-type level
get_uuid_no_type(ICDC_DOMAIN, node_type, signature) ==
    LET icdc_base_uuid == uuid5(NAMESPACE_URL, ICDC_DOMAIN)
        node_uuid      == uuid5(icdc_base_uuid, signature)
    IN  uuid_str(node_uuid)

\* mutant: the base id is derived anew by every process (as uuid1 or uuid4 would)
get_uuid_per_run(ICDC_DOMAIN, node_type, signature) ==
    LET icdc_base_uuid == uuid5(NAMESPACE_URL, IF run_no = 1 THEN "run_1" ELSE "run_2")
        type_uuid      == uuid5(icdc_base_uuid, node_type)
        node_uuid      == uuid5(type_uuid, signature)
    IN  uuid_str(node_uuid)

get_uuid_for_node(ICDC_DOMAIN, node_type, signature) ==
    LET icdc_base_uuid == uuid5(NAMESPACE_URL, ICDC_DOMAIN)
        type_uuid      == uuid5(icdc_base_uuid, node_type)
        node_uuid      == uuid5(type_uuid, signature)
    IN  uuid_str(node_uuid)

UuidInit ==
    /\ domain \in [Procs -> Domains]
    /\ calls = {}

GetUuid(p, t, s) ==
    /\ Cardinality(calls) < MaxCalls
    /\ calls' = calls \cup
         {[proc |-> p, node_type |-> t, signature |-> s,
           id |-> get_uuid_for_node(domain[p], t, s)]}
    /\ UNCHANGED domain

----------------------------------------------------------------------------
(* loader.confirm_wipe_db *)

Str_yes == <<"y", "e", "s">>

\* what the user may type at the prompt
Answers ==
    { <<>>, Str_yes, <<" ", "Y", "e", "S", "\n">>, <<"n", "o">>, <<"y">>,
      <<"y", "e", "s", "s">>, <<"y", " ", "e", "s">>, <<"\t", "N", "O">>,
      <<"y", "e", "s", " ", "n", "o">>, <<" ">> }

\* mutant: any answer that starts with "y" is taken as consent
confirm_wipe_db_lax(typed) ==
    LET confirm == lower(strip(typed))
    IN  confirm # <<>> /\ Head(confirm) = "y"

confirm_wipe_db(typed) ==
    LET confirm == lower(strip(typed))
    IN  confirm = Str_yes

----------------------------------------------------------------------------
(* utils.check_schema_files: schemas is the list of -s arguments, given    *)
(* here by whether each names an existing file.                            *)

\* mutant: only the first schema argument is looked at
check_first_schema_file(schemas) ==
    IF schemas = <<>> THEN FALSE
    ELSE schemas[1]

check_schema_files(schemas) ==
    IF schemas = <<>> THEN FALSE
    ELSE \A i \in 1..Len(schemas) : schemas[i]

----------------------------------------------------------------------------
(* utils.backup_neo4j: two commands, mkdir -p and neo4j-admin backup, each *)
(* run with subprocess.call, locally or through ssh.  subprocess.call      *)
(* returns the exit status ("ok", "nonzero"), which is not looked at, or   *)
(* raises ("raise") when the program cannot be started.                    *)

CmdOutcomes == {"ok", "nonzero", "raise"}

LocalHosts == {"localhost", "127.0.0.1"}

backup_cmd(address, name) ==
    IF address \in LocalHosts THEN <<name>> ELSE <<"ssh", address, name>>

backup_neo4j(address, o1, o2) ==
    IF o1 = "raise"
      THEN [ret |-> "False", cmds |-> <<[cmd |-> backup_cmd(address, "mkdir"), outcome |-> o1]>>]
      ELSE [ret |-> IF o2 = "raise" THEN "False" ELSE "text",
            cmds |-> <<[cmd |-> backup_cmd(address, "mkdir"), outcome |-> o1],
                       [cmd |-> backup_cmd(address, "neo4j-admin backup"), outcome |-> o2]>>]

\* utils.get_host(uri) after main's default for a missing --uri
Uris == {"", "bolt://db.example.org:7687"}

get_host(uri) ==
    CASE uri = "bolt://localhost:7687"       -> "localhost"
      [] uri = "bolt://db.example.org:7687"  -> "db.example.org"

----------------------------------------------------------------------------
(* The graph store, and DataLoader.load as the specification describes it  *)
(* (data_loader.py is not among the sources).                              *)

UPSERT_MODE == "upsert"
NEW_MODE    == "new"
DELETE_MODE == "delete"
Modes       == {UPSERT_MODE, NEW_MODE, DELETE_MODE}

NoParent   == [type |-> "none", sig |-> "none"]
EmptyStore == [nodes |-> {}, rels |-> {}]

\* records: a node type, a signature, properties as (name, value) pairs and
\* at most one parent pointer
CaseA1  == [type |-> "case", sig |-> "s1", props |-> {<<"p", "v1">>}, parent |-> NoParent]
CaseA2  == [type |-> "case", sig |-> "s1", props |-> {<<"p", "v2">>, <<"q", "v1">>},
            parent |-> NoParent]
SampleA == [type |-> "sample", sig |-> "s1", props |-> {<<"p", "v1">>},
            parent |-> [type |-> "case", sig |-> "s1"]]
SampleB == [type |-> "sample", sig |-> "s2", props |-> {<<"q", "v2">>},
            parent |-> [type |-> "case", sig |-> "s2"]]

\* the contents a *.txt file of the data directory may have
Files == { <<CaseA1, SampleA>>, <<CaseA2>>, <<SampleB>> }

\* the process that loads is process 1
NodeId(type, sig) == get_uuid_for_node(domain[1], type, sig)

HasNode(st, id) == \E n \in st.nodes : n.id = id

\* last write wins per property
MergeProps(old, new) == new \cup {o \in old : \A q \in new : q[1] # o[1]}

\* the stores the process may find when it starts
InitialStores ==
    { EmptyStore,
      [nodes |-> {[id |-> NodeId("case", "s2"), type |-> "case", props |-> {<<"p", "v1">>}],
                  [id |-> NodeId("case", "s1"), type |-> "case", props |-> {<<"q", "v2">>}]},
       rels  |-> {}] }

RECURSIVE Flatten(_)
Flatten(files) == IF files = <<>> THEN <<>> ELSE Head(files) \o Flatten(Tail(files))

\* Validator: a parent pointer must resolve to a record of the batch or, when
\* there is a session, to a node of the store
Unresolved(files, st, has_session) ==
    LET batch == Flatten(files)
    IN  {i \in 1..Len(batch) :
           /\ batch[i].parent # NoParent
           /\ ~\E j \in 1..Len(batch) :
                 batch[j].type = batch[i].parent.type /\ batch[j].sig = batch[i].parent.sig
           /\ ~(has_session /\ HasNode(st, NodeId(batch[i].parent.type, batch[i].parent.sig)))}

\* the operations of one file: every record's node, then every record's relationship
FileOps(file) ==
    [i \in 1..Len(file) |-> [kind |-> "node", rec |-> file[i]]]
    \o [i \in 1..Len(file) |-> [kind |-> "rel", rec |-> file[i]]]

\* one operation applied to the transaction's view st: the new view, whether it
\* succeeded, and what it created
ApplyOp(mode, st, op) ==
    LET rec == op.rec
        id  == NodeId(rec.type, rec.sig)
        pid == NodeId(rec.parent.type, rec.parent.sig)
        old == CHOOSE n \in st.nodes : n.id = id
        fail == [st |-> st, ok |-> FALSE, nodes |-> 0, rels |-> 0]
    IN
    IF op.kind = "node" THEN
        CASE mode = DELETE_MODE ->
               [st |-> [nodes |-> {n \in st.nodes : n.id # id},
                        rels  |-> {r \in st.rels : r.src # id /\ r.dst # id}],
                ok |-> TRUE, nodes |-> 0, rels |-> 0]
          [] mode = NEW_MODE /\ HasNode(st, id) -> fail
          [] mode = UPSERT_MODE /\ HasNode(st, id) ->
               [st |-> [st EXCEPT !.nodes = (@ \ {old}) \cup
                          {[old EXCEPT !.props = MergeProps(old.props, rec.props)]}],
                ok |-> TRUE, nodes |-> 0, rels |-> 0]
          [] OTHER ->
               [st |-> [st EXCEPT !.nodes = @ \cup
                          {[id |-> id, type |-> rec.type, props |-> rec.props]}],
                ok |-> TRUE, nodes |-> 1, rels |-> 0]
    ELSE
        CASE rec.parent = NoParent \/ mode = DELETE_MODE ->
               [st |-> st, ok |-> TRUE, nodes |-> 0, rels |-> 0]
          [] ~HasNode(st, pid) \/ ~HasNode(st, id) -> fail
          [] [src |-> id, dst |-> pid] \in st.rels ->
               [st |-> st, ok |-> TRUE, nodes |-> 0, rels |-> 0]
          [] OTHER ->
               [st |-> [st EXCEPT !.rels = @ \cup {[src |-> id, dst |-> pid]}],
                ok |-> TRUE, nodes |-> 0, rels |-> 1]

\* mutant: a failed file leaves what it had applied so far in the store
KeepPartial(committed, view) == view

\* the store after a file's transaction is rolled back
RolledBack(committed, view) == committed

----------------------------------------------------------------------------
(* loader.main *)

DirStates == {"missing", "file", "empty", "nonempty"}

\* the flags of the command line that main or load read more than once; the
\* other arguments (--s3-folder, --bucket, --password, --uri, --schema) are
\* drawn where main reads them
Args ==
    [dry_run : BOOLEAN, wipe_db : BOOLEAN, no_backup : BOOLEAN, cheat_mode : BOOLEAN,
     mode : Modes]

NoCounts == [nodes_created |-> 0, relationship_created |-> 0]

LoadIdle ==
    /\ tx = EmptyStore
    /\ lpc = "idle"
    /\ file_idx = 0
    /\ rec_idx = 0
    /\ counts = NoCounts
    /\ run_no = 1
    /\ after_run1 = [store |-> EmptyStore, lpc |-> "idle"]

MainInit ==
    /\ pc = "s3_fetch"
    /\ args \in Args
    /\ env = [dir |-> "unknown", schemas |-> <<>>, schema_ok |-> "unchecked",
              schema_built |-> "no"]
    /\ cmds_run = <<>>
    /\ restore_cmd = ""
    /\ driver = "none"
    /\ answer = <<>>
    /\ confirmed = "unasked"
    /\ exit = "running"
    /\ trace = <<>>
    /\ domain = [p \in Procs |-> "domain_a"]
    /\ calls = {}
    /\ field_name = <<>>
    /\ pp_result = "unset"
    /\ LoadIdle
    /\ file_list = <<>>
    /\ store0 \in InitialStores
    /\ store = store0
    /\ base = store0

\* sys.exit(code), an uncaught exception ("raised"), or falling off the end of main
Ends(how) ==
    /\ pc' = "done"
    /\ exit' = how

\* lines 36-57: with --s3-folder the directory is created or must be empty,
\* --bucket must be given, and the folder's files are downloaded into it
S3Fetch ==
    /\ pc = "s3_fetch"
    /\ \E s3_folder, bucket \in BOOLEAN :
         IF s3_folder
           THEN \E d \in DirStates :
                  LET dir == IF d = "missing" THEN "empty" ELSE d
                  IN  IF d = "nonempty" \/ ~bucket \/ dir = "file"
                        THEN /\ env' = [env EXCEPT !.dir = dir]
                             /\ Ends("exit1")
                        ELSE \E downloaded \in BOOLEAN :
                               IF downloaded
                                 THEN /\ \E d2 \in {"empty", "nonempty"} :
                                           env' = [env EXCEPT !.dir = d2]
                                      /\ pc' = "check_dir"
                                      /\ UNCHANGED exit
                                 ELSE /\ env' = [env EXCEPT !.dir = dir]
                                      /\ Ends("exit1")
           ELSE pc' = "check_dir" /\ UNCHANGED <<env, exit>>
    /\ UNCHANGED <<args, cmds_run, restore_cmd, driver, answer, confirmed, trace>>
    /\ UNCHANGED <<ppVars, uuidVars, loadVars>>

\* lines 59-61
CheckDir ==
    /\ pc = "check_dir"
    /\ \E d \in (IF env.dir = "unknown" THEN DirStates ELSE {env.dir}) :
         /\ env' = [env EXCEPT !.dir = d]
         /\ IF d \in {"missing", "file"} THEN Ends("exit1")
            ELSE pc' = "password" /\ UNCHANGED exit
    /\ UNCHANGED <<args, cmds_run, restore_cmd, driver, answer, confirmed, trace>>
    /\ UNCHANGED <<ppVars, uuidVars, loadVars>>

\* lines 63-73
Password ==
    /\ pc = "password"
    /\ \E password, in_environ \in BOOLEAN :
         IF ~password /\ ~in_environ THEN Ends("exit1")
         ELSE pc' = "check_schema" /\ UNCHANGED exit
    /\ UNCHANGED <<args, env, cmds_run, restore_cmd, driver, answer, confirmed, trace>>
    /\ UNCHANGED <<ppVars, uuidVars, loadVars>>

\* lines 75-76
CheckSchema ==
    /\ pc = "check_schema"
    /\ \E n \in 1..MaxSchemas : \E is_file \in [1..n -> BOOLEAN] :
         /\ env' = [env EXCEPT !.schemas = is_file,
                               !.schema_ok = IF check_schema_files(is_file)
                                               THEN "ok" ELSE "failed"]
         /\ IF check_schema_files(is_file) THEN pc' = "glob" /\ UNCHANGED exit
            ELSE Ends("exit1")
    /\ UNCHANGED <<args, cmds_run, restore_cmd, driver, answer, confirmed, trace>>
    /\ UNCHANGED <<ppVars, uuidVars, loadVars>>

\* lines 79-80 and 104-105
Glob ==
    /\ pc = "glob"
    /\ file_list' \in (IF env.dir = "empty" THEN {<<>>} ELSE SeqsUpTo(Files, MaxFiles))
    /\ IF file_list' = <<>> THEN Ends("returned")
       ELSE pc' = "backup" /\ UNCHANGED exit
    /\ UNCHANGED <<args, env, cmds_run, restore_cmd, driver, answer, confirmed, trace>>
    /\ UNCHANGED <<ppVars, uuidVars>>
    /\ UNCHANGED <<store, store0, tx, lpc, file_idx, rec_idx, counts, base, run_no, after_run1>>

\* mutant: the backup is taken on a dry run too
NeedBackupEvenDry == ~args.no_backup

\* line 84
NeedBackup == ~args.no_backup /\ ~args.dry_run

\* lines 63 and 82
Host(uri) == get_host(IF uri # "" THEN uri ELSE "bolt://localhost:7687")

\* lines 81-88
Backup ==
    /\ pc = "backup"
    /\ IF NeedBackup
         THEN \E uri \in Uris, o1, o2 \in CmdOutcomes :
                LET r == backup_neo4j(Host(uri), o1, o2)
                IN  /\ cmds_run' = r.cmds
                    /\ restore_cmd' = r.ret
                    /\ trace' = Append(trace, "backup")
                    /\ IF r.ret = "False" THEN Ends("exit1")
                       ELSE pc' = "schema" /\ UNCHANGED exit
         ELSE pc' = "schema" /\ UNCHANGED <<cmds_run, restore_cmd, trace, exit>>
    /\ UNCHANGED <<args, env, driver, answer, confirmed>>
    /\ UNCHANGED <<ppVars, uuidVars, loadVars>>

\* line 89: ICDC_Schema(args.schema) returns the schema or raises
BuildSchema ==
    /\ pc = "schema"
    /\ \E built \in BOOLEAN :
         /\ env' = [env EXCEPT !.schema_built = IF built THEN "ok" ELSE "error"]
         /\ IF built THEN pc' = "driver" /\ UNCHANGED exit
            ELSE Ends("raised")
    /\ UNCHANGED <<args, cmds_run, restore_cmd, driver, answer, confirmed, trace>>
    /\ UNCHANGED <<ppVars, uuidVars, loadVars>>

\* line 91
NeedDriver == ~args.dry_run

\* lines 90-93: GraphDatabase.driver connects, or raises ServiceUnavailable,
\* which line 107 catches
OpenDriver ==
    /\ pc = "driver"
    /\ IF NeedDriver
         THEN \E connected \in BOOLEAN :
                IF connected
                  THEN /\ driver' = "open"
                       /\ trace' = Append(trace, "driver_open")
                       /\ pc' = IF args.wipe_db THEN "confirm" ELSE "load"
                       /\ UNCHANGED exit
                  ELSE Ends("returned") /\ UNCHANGED <<driver, trace>>
         ELSE /\ pc' = IF args.wipe_db THEN "confirm" ELSE "load"
              /\ UNCHANGED <<driver, trace, exit>>
    /\ UNCHANGED <<args, env, cmds_run, restore_cmd, answer, confirmed>>
    /\ UNCHANGED <<ppVars, uuidVars, loadVars>>

\* lines 94-96 with confirm_wipe_db, lines 111-115
ConfirmWipe ==
    /\ pc = "confirm"
    /\ \E typed \in Answers :
         /\ answer' = typed
         /\ confirmed' = IF confirm_wipe_db(typed) THEN "yes" ELSE "no"
         /\ IF confirm_wipe_db(typed) THEN pc' = "load" /\ UNCHANGED exit
            ELSE Ends("exit0")
    /\ trace' = Append(trace, "confirm")
    /\ UNCHANGED <<args, env, cmds_run, restore_cmd, driver>>
    /\ UNCHANGED <<ppVars, uuidVars, loadVars>>

\* line 113: input() raises EOFError when standard input is closed
ConfirmEOF ==
    /\ pc = "confirm"
    /\ confirmed' = "eof"
    /\ trace' = Append(trace, "confirm")
    /\ Ends("raised")
    /\ UNCHANGED <<args, env, cmds_run, restore_cmd, driver, answer>>
    /\ UNCHANGED <<ppVars, uuidVars, loadVars>>

\* lines 100-103
CloseDriver ==
    /\ pc = "close"
    /\ IF driver = "open"
         THEN driver' = "closed" /\ trace' = Append(trace, "driver_close")
         ELSE UNCHANGED <<driver, trace>>
    /\ Ends("returned")
    /\ UNCHANGED <<args, env, cmds_run, restore_cmd, answer, confirmed>>
    /\ UNCHANGED <<ppVars, uuidVars, loadVars>>

----------------------------------------------------------------------------
(* DataLoader.load(file_list, cheat_mode, dry_run, mode, wipe_db,          *)
(* max_violations), called at line 98 of loader.py                         *)

mainRest == <<args, env, cmds_run, restore_cmd, driver, answer, confirmed>>

\* the call: the Validator runs; a dry run, or violations outside cheat mode,
\* stop before the Load Engine; otherwise the wipe, if asked for, comes first
LoadBegin ==
    /\ pc = "load"
    /\ lpc = "idle"
    /\ LET violations == Unresolved(file_list, store, driver = "open")
           stops      == args.dry_run \/ driver # "open"
                         \/ (~args.cheat_mode /\ violations # {})
       IN  IF stops
             THEN /\ lpc' = "done"
                  /\ pc' = "close"
                  /\ trace' = Append(trace, "load")
                  /\ base' = store
                  /\ UNCHANGED store
             ELSE /\ lpc' = "files"
                  /\ pc' = "load"
                  /\ trace' = IF args.wipe_db THEN trace \o <<"load", "wipe">>
                              ELSE Append(trace, "load")
                  /\ store' = IF args.wipe_db THEN EmptyStore ELSE store
                  /\ base' = store'
    /\ file_idx' = 0
    /\ rec_idx' = 0
    /\ counts' = NoCounts
    /\ UNCHANGED <<mainRest, exit, file_list, store0, tx, run_no, after_run1>>
    /\ UNCHANGED <<ppVars, uuidVars>>

\* the next file's transaction is opened
BeginFile ==
    /\ pc = "load"
    /\ lpc = "files"
    /\ file_idx < Len(file_list)
    /\ lpc' = "in_file"
    /\ tx' = store
    /\ rec_idx' = 0
    /\ UNCHANGED <<mainRest, pc, exit, trace>>
    /\ UNCHANGED <<file_list, store, store0, file_idx, counts, base, run_no, after_run1>>
    /\ UNCHANGED <<ppVars, uuidVars>>

\* load raises: a LoadError or a lost connection (ServiceUnavailable, which
\* line 107 of loader.py catches); the file's transaction is rolled back
LoadRaises(error) ==
    /\ lpc' = "failed"
    /\ store' = RolledBack(store, tx)
    /\ Ends(IF error = "ServiceUnavailable" THEN "returned" ELSE "raised")

\* the next operation of the current file, inside its transaction
ApplyRecord ==
    /\ pc = "load"
    /\ lpc = "in_file"
    /\ rec_idx < Len(FileOps(file_list[file_idx + 1]))
    /\ LET r == ApplyOp(args.mode, tx, FileOps(file_list[file_idx + 1])[rec_idx + 1])
       IN  IF r.ok
             THEN /\ tx' = r.st
                  /\ rec_idx' = rec_idx + 1
                  /\ counts' = [nodes_created |-> counts.nodes_created + r.nodes,
                                relationship_created |-> counts.relationship_created + r.rels]
                  /\ UNCHANGED <<pc, exit, lpc, store>>
             ELSE /\ LoadRaises("LoadError")
                  /\ UNCHANGED <<tx, rec_idx, counts>>
    /\ UNCHANGED <<mainRest, trace>>
    /\ UNCHANGED <<file_list, store0, file_idx, base, run_no, after_run1>>
    /\ UNCHANGED <<ppVars, uuidVars>>

\* the store fails while a file is being applied
StoreFailure ==
    /\ pc = "load"
    /\ lpc = "in_file"
    /\ \E error \in {"ServiceUnavailable", "Exception"} : LoadRaises(error)
    /\ UNCHANGED <<mainRest, trace>>
    /\ UNCHANGED <<file_list, store0, tx, file_idx, rec_idx, counts, base, run_no, after_run1>>
    /\ UNCHANGED <<ppVars, uuidVars>>

\* every operation of the file is applied: its transaction commits
CommitFile ==
    /\ pc = "load"
    /\ lpc = "in_file"
    /\ rec_idx = Len(FileOps(file_list[file_idx + 1]))
    /\ store' = tx
    /\ file_idx' = file_idx + 1
    /\ lpc' = "files"
    /\ UNCHANGED <<mainRest, pc, exit, trace>>
    /\ UNCHANGED <<file_list, store0, tx, rec_idx, counts, base, run_no, after_run1>>
    /\ UNCHANGED <<ppVars, uuidVars>>

\* every file is committed: load returns to line 100 of loader.py
LoadEnd ==
    /\ pc = "load"
    /\ lpc = "files"
    /\ file_idx = Len(file_list)
    /\ lpc' = "done"
    /\ pc' = "close"
    /\ UNCHANGED <<mainRest, exit, trace>>
    /\ UNCHANGED <<file_list, store, store0, tx, file_idx, rec_idx, counts, base, run_no, after_run1>>
    /\ UNCHANGED <<ppVars, uuidVars>>

LoadNext == LoadBegin \/ BeginFile \/ ApplyRecord \/ StoreFailure \/ CommitFile \/ LoadEnd

MainNext ==
    \/ S3Fetch \/ CheckDir \/ Password \/ CheckSchema \/ Glob
    \/ Backup \/ BuildSchema \/ OpenDriver \/ ConfirmWipe \/ ConfirmEOF
    \/ LoadNext
    \/ CloseDriver

Spec == MainInit /\ [][MainNext]_vars

----------------------------------------------------------------------------
(* The loader run twice on the same files: the second process starts where *)
(* the first one left the store.  Both runs are past the checks of main    *)
(* and have a session.                                                     *)

LoadInit ==
    /\ pc = "load"
    /\ args \in {a \in Args : ~a.dry_run /\ a.no_backup}
    /\ env = [dir |-> "nonempty", schemas |-> <<TRUE>>, schema_ok |-> "ok",
              schema_built |-> "ok"]
    /\ cmds_run = <<>>
    /\ restore_cmd = ""
    /\ driver = "open"
    /\ answer = IF args.wipe_db THEN Str_yes ELSE <<>>
    /\ confirmed = IF args.wipe_db THEN "yes" ELSE "unasked"
    /\ exit = "running"
    /\ trace = <<>>
    /\ domain = [p \in Procs |-> "domain_a"]
    /\ calls = {}
    /\ field_name = <<>>
    /\ pp_result = "unset"
    /\ LoadIdle
    /\ file_list \in SeqsUpTo(Files, MaxFiles) \ {<<>>}
    /\ store0 \in InitialStores
    /\ store = store0
    /\ base = store0

\* the same command is run again on the unchanged files
Rerun ==
    /\ run_no = 1
    /\ pc \in {"close", "done"}
    /\ after_run1' = [store |-> store, lpc |-> lpc]
    /\ run_no' = 2
    /\ pc' = "load"
    /\ exit' = "running"
    /\ lpc' = "idle"
    /\ file_idx' = 0
    /\ rec_idx' = 0
    /\ counts' = NoCounts
    /\ tx' = EmptyStore
    /\ trace' = <<>>
    /\ UNCHANGED <<mainRest, file_list, store, store0, base>>
    /\ UNCHANGED <<ppVars, uuidVars>>

SpecLoad == LoadInit /\ [][LoadNext \/ Rerun]_vars

----------------------------------------------------------------------------
(* The specifications of the two helpers *)

PPNext == CheckField /\ UNCHANGED <<uuidVars, mainVars, loadVars>>

Idle ==
    /\ pc = "idle"
    /\ args = [dry_run |-> FALSE, wipe_db |-> FALSE, no_backup |-> FALSE,
               cheat_mode |-> FALSE, mode |-> UPSERT_MODE]
    /\ env = [dir |-> "unknown", schemas |-> <<>>, schema_ok |-> "unchecked",
              schema_built |-> "no"]
    /\ cmds_run = <<>>
    /\ restore_cmd = ""
    /\ driver = "none"
    /\ answer = <<>>
    /\ confirmed = "unasked"
    /\ exit = "running"
    /\ trace = <<>>
    /\ file_list = <<>>
    /\ store0 = EmptyStore
    /\ store = EmptyStore
    /\ base = EmptyStore
    /\ LoadIdle

PPSpecInit == PPInit /\ domain = [p \in Procs |-> "domain_a"] /\ calls = {} /\ Idle

SpecPP == PPSpecInit /\ [][PPNext]_vars

UuidNext ==
    /\ \E p \in Procs, t \in NodeTypes, s \in Sigs : GetUuid(p, t, s)
    /\ UNCHANGED <<ppVars, mainVars, loadVars>>

UuidSpecInit == UuidInit /\ field_name = <<>> /\ pp_result = "unset" /\ Idle

SpecUuid == UuidSpecInit /\ [][UuidNext]_vars

----------------------------------------------------------------------------
(* Properties *)

Events == {trace[i] : i \in 1..Len(trace)}

\* the place of an event's first occurrence in the trace, 0 when it has none
Pos(e) == IF e \in Events THEN CHOOSE i \in 1..Len(trace) : trace[i] = e /\ \A j \in 1..(i - 1) : trace[j] # e
          ELSE 0

Ended == pc = "done" /\ exit # "running"

\* C1: on a dry run, whatever the other flags, no driver is opened, no backup
\* command is run and the store is never touched, not even inside a transaction
C1_DryRunTouchesNothing ==
    args.dry_run =>
        /\ driver = "none"
        /\ "driver_open" \notin Events
        /\ cmds_run = <<>>
        /\ "backup" \notin Events
        /\ store = store0
        /\ tx = EmptyStore
        /\ lpc \in {"idle", "done"}

C1_Witness ==
    /\ args.dry_run /\ args.wipe_db /\ ~args.no_backup /\ args.mode = DELETE_MODE
    /\ confirmed = "yes"
    /\ "load" \in Events
    /\ exit = "returned"
    /\ store0 # EmptyStore

\* an answer made of whitespace, then y e s in either case, then whitespace
IsYesForm(a) ==
    \E i \in 1..Len(a) :
        /\ i + 2 <= Len(a)
        /\ a[i] \in {"y", "Y"} /\ a[i + 1] \in {"e", "E"} /\ a[i + 2] \in {"s", "S"}
        /\ \A k \in 1..Len(a) : (k < i \/ k > i + 2) => a[k] \in Whitespace

\* C2: with --wipe-db, load is invoked only after the prompt was answered with
\* "yes" (surrounding whitespace and case aside); after any other answer the run
\* has ended without load and with the store as it was
C2_WipeNeedsConfirmation ==
    args.wipe_db =>
        /\ "load" \in Events =>
             /\ confirmed = "yes"
             /\ IsYesForm(answer)
             /\ Pos("confirm") < Pos("load")
        /\ "wipe" \in Events => Pos("confirm") < Pos("wipe")
        /\ (confirmed # "unasked" /\ ~IsYesForm(answer)) =>
             /\ Ended
             /\ "load" \notin Events
             /\ lpc = "idle"
             /\ store = store0

C2_Witness ==
    /\ args.wipe_db
    /\ answer = <<" ", "Y", "e", "S", "\n">>
    /\ "wipe" \in Events
    /\ store0 # EmptyStore
    /\ store = EmptyStore

BackupSucceeded ==
    /\ Len(cmds_run) = 2
    /\ \A i \in 1..Len(cmds_run) : cmds_run[i].outcome = "ok"

\* C3: when load is invoked with wipe_db against a real driver and --no-backup
\* was not given, a backup has completed successfully before the confirmation
\* and before load
C3_WipeAfterSuccessfulBackup ==
    (args.wipe_db /\ ~args.dry_run /\ ~args.no_backup /\ "load" \in Events) =>
        /\ BackupSucceeded
        /\ 0 < Pos("backup")
        /\ Pos("backup") < Pos("confirm")
        /\ Pos("confirm") < Pos("load")

\* C7: when a schema source is not a file, or building the schema fails, the run
\* has ended without load and with the store as it was; an empty schema list is
\* refused as well
C7_SchemaErrorIsFatal ==
    /\ ~check_schema_files(<<>>)
    /\ (\/ env.schema_ok = "failed"
        \/ env.schema_built = "error"
        \/ \E i \in 1..Len(env.schemas) : ~env.schemas[i]) =>
           /\ Ended
           /\ exit \in {"exit1", "raised"}
           /\ "load" \notin Events
           /\ lpc = "idle"
           /\ store = store0

C7_Witness ==
    /\ env.schemas = <<TRUE, FALSE>>
    /\ exit = "exit1"
    /\ pc = "done"

\* C9: when the run is not a dry run and --no-backup was not given, a backup
\* whose commands did not all succeed ends the run with an error before a driver
\* is opened and before load
C9_FailedBackupAborts ==
    (~args.dry_run /\ ~args.no_backup /\ "backup" \in Events /\ ~BackupSucceeded) =>
        /\ Ended
        /\ exit = "exit1"
        /\ driver = "none"
        /\ "load" \notin Events

\* C10: when main has ended after opening a driver, the driver is closed
C10_DriverClosedAtExit ==
    (Ended /\ "driver_open" \in Events) => driver = "closed"

\* the three nested derivations, written out
NestedId(dom, t, sig) ==
    [str |-> [ns |-> [ns |-> [ns |-> NAMESPACE_URL, name |-> dom], name |-> t], name |-> sig]]

\* C4 as stated: the id depends on nothing but the node type and the signature,
\* whichever process computes it
C4_IdDependsOnTypeAndSignatureOnly ==
    \A c1, c2 \in calls :
        (c1.node_type = c2.node_type /\ c1.signature = c2.signature) => c1.id = c2.id

\* C4 as amended: the id is the three-level derivation from the configured
\* domain, the node type and the signature, and processes configured with the
\* same domain compute the same id for the same type and signature
C4_IdIsNestedDerivationOfDomainTypeSignature ==
    /\ \A c \in calls : c.id = NestedId(domain[c.proc], c.node_type, c.signature)
    /\ \A c1, c2 \in calls :
         (/\ domain[c1.proc] = domain[c2.proc]
          /\ c1.node_type = c2.node_type
          /\ c1.signature = c2.signature) => c1.id = c2.id

C4_Witness ==
    \E c1, c2 \in calls :
        /\ c1.proc # c2.proc
        /\ domain[c1.proc] = domain[c2.proc]
        /\ c1.node_type = c2.node_type
        /\ c1.signature = c2.signature

\* a whole file applied to a store
RECURSIVE ApplyOps(_, _, _)
ApplyOps(mode, st, ops) ==
    IF ops = <<>> THEN st ELSE ApplyOps(mode, ApplyOp(mode, st, Head(ops)).st, Tail(ops))

RECURSIVE ApplyFiles(_, _, _)
ApplyFiles(mode, st, files) ==
    IF files = <<>> THEN st
    ELSE ApplyFiles(mode, ApplyOps(mode, st, FileOps(Head(files))), Tail(files))

Ids(st) == {n.id : n \in st.nodes}

\* C5: when a load in upsert mode has completed and is run again on the same
\* files, the second run creates no node and no relationship that the store did
\* not hold (it counts none unless it wiped the store first), and once it has
\* completed the store is what the first run left
C5_UpsertIsIdempotent ==
    (run_no = 2 /\ args.mode = UPSERT_MODE /\ after_run1.lpc = "done") =>
        /\ ~args.wipe_db => counts = NoCounts
        /\ lpc # "idle" =>
             /\ Ids(store) \subseteq Ids(after_run1.store)
             /\ store.rels \subseteq after_run1.store.rels
        /\ lpc = "in_file" =>
             /\ Ids(tx) \subseteq Ids(after_run1.store)
             /\ tx.rels \subseteq after_run1.store.rels
        /\ lpc = "done" => store = after_run1.store

C5_Witness ==
    /\ run_no = 2 /\ args.mode = UPSERT_MODE /\ after_run1.lpc = "done"
    /\ ~args.wipe_db
    /\ lpc = "done"
    /\ file_idx = Len(file_list)
    /\ file_idx = MaxFiles
    /\ store0 # EmptyStore
    /\ store.rels # {}
    /\ store # store0

\* C6: files are committed whole and in order: at every moment of a load the
\* store is the result of applying the first file_idx files, wholly, to the store
\* the load began with; after a failure in a file the store is as that file found
\* it
C6_FilesAreAtomic ==
    lpc # "idle" =>
        /\ file_idx \in 0..Len(file_list)
        /\ store = ApplyFiles(args.mode, base, SubSeq(file_list, 1, file_idx))
        /\ lpc = "failed" => file_idx < Len(file_list)
        /\ (lpc = "done" /\ store # base) => file_idx = Len(file_list)

C6_Witness ==
    /\ lpc = "failed"
    /\ file_idx >= 1
    /\ rec_idx >= 1
    /\ tx # store
    /\ store # base

\* a non-empty run of word characters, one dot, a non-empty run of word characters
IsWordDotWord(s) ==
    \E d \in 2..(Len(s) - 1) :
        /\ s[d] = "."
        /\ \A i \in 1..Len(s) : i # d => s[i] \in WordChars

\* C8: is_parent_pointer says yes exactly for the names that are, as a whole,
\* word characters, one dot, word characters
C8_ParentPointerIsWordDotWord ==
    pp_result # "unset" => (pp_result = "match" <=> IsWordDotWord(field_name))

C8_Witness ==
    /\ pp_result = "match"
    /\ Len(field_name) = MaxNameLen
    /\ field_name[2] = "."

====
